---- MODULE Spec2Model ----
(***************************************************************************)
(* Chat workspace settings routes of meilisearch                           *)
(* (crates/meilisearch/src/routes/chats/settings.rs): the GET, PATCH and   *)
(* DELETE handlers of /chats/{workspace_uid}/settings, run by concurrent   *)
(* requests against the index scheduler's transactional store.             *)
(*                                                                         *)
(* The handlers are translated from settings.rs.  The store (read_txn,     *)
(* write_txn, chat_settings, put_chat_settings, delete_chat_settings,      *)
(* commit), hide_secrets and the default values live in the                *)
(* index-scheduler and meilisearch-types crates; they are modelled from    *)
(* the specification's sections 3, 4.2, 5 and 6.                           *)
(***************************************************************************)
EXTENDS Integers, Sequences, FiniteSets, TLC

VARIABLES
    db,            \* committed store: workspace -> Option<ChatCompletionSettings>
    writer,        \* the requests holding the store's write lock: one or none
    txn,           \* request -> Option<view of the store seen by its transaction>
    pc,            \* request -> position in its handler
    req,           \* request -> Option<[op, workspace_uid, new]>
    old_settings,  \* request -> Option<record loaded at settings.rs:70>
    settings,      \* request -> Option<record built at settings.rs:105 / 45>
    resp,          \* request -> Option<[status, body]>
    atomic,        \* history: the store of a one-operation-at-a-time execution
    window,        \* history: request -> committed values of its workspace during it
    overlap,       \* history: request -> requests in flight when it arrived
    pre,           \* history: request -> Option<committed store when it arrived>
    didCommit,     \* history: request -> its handler has committed a transaction
    lastWrite,     \* history: workspace -> the last committed write to it
    scenario,      \* history: workspace -> how far the writes to it follow Scenario
    first,         \* history: request -> Option<answer to its patch when first sent>
    nOps           \* number of requests received so far

hist == <<atomic, window, overlap, pre, didCommit, lastWrite, scenario, first>>

vars == <<db, writer, txn, pc, req, old_settings, settings, resp, hist, nOps>>

----------------------------------------------------------------------------
(* Bounds *)

NumReqs == 2
NumWorkspaces == 2
MaxOps == 2
MaxKeys == 2
ConcKeys == 1

Reqs == 1..NumReqs
Workspaces == 1..NumWorkspaces

\* the one-request-at-a-time runs: one request slot, one workspace patched
SeqReqs == {1}
SeqWorkspaces == {1}

----------------------------------------------------------------------------
(* Option<T> *)

None == <<>>
Some(x) == <<x>>
IsSome(o) == Len(o) = 1
Unwrap(o) == o[1]

(* milli::update::Setting<T>: Set(value) | Reset | NotSet *)
NotSet == <<"NotSet">>
Reset == <<"Reset">>
Set(v) == <<"Set", v>>
Tag(s) == s[1]
SetValue(s) == s[2]
SettingOf(V) == {NotSet, Reset} \cup {Set(v) : v \in V}

----------------------------------------------------------------------------
(* Values *)

ApiKeys == {"sk-1", "sk-2"}
BaseApis == {"https://api.mistral.ai/v1"}
Texts == {"Hi"}

\* wire enum ChatCompletionSource, serialized camelCase
WireSources == {"openAi"}

DEFAULT_CHAT_SYSTEM_PROMPT == "DEFAULT_CHAT_SYSTEM_PROMPT"
DEFAULT_CHAT_SEARCH_DESCRIPTION_PROMPT == "DEFAULT_CHAT_SEARCH_DESCRIPTION_PROMPT"
DEFAULT_CHAT_SEARCH_Q_PARAM_PROMPT == "DEFAULT_CHAT_SEARCH_Q_PARAM_PROMPT"
DEFAULT_CHAT_SEARCH_INDEX_UID_PARAM_PROMPT == "DEFAULT_CHAT_SEARCH_INDEX_UID_PARAM_PROMPT"
DEFAULT_CHAT_PRE_QUERY_PROMPT == "DEFAULT_CHAT_PRE_QUERY_PROMPT"

PromptFields ==
    {"system", "search_description", "search_q_param",
     "search_index_uid_param", "pre_query"}

\* DbChatCompletionSource::default()
DbSourceDefault == "OpenAi"

\* DbChatCompletionPrompts::default()
DbPromptsDefault ==
    [system                 |-> DEFAULT_CHAT_SYSTEM_PROMPT,
     search_description     |-> DEFAULT_CHAT_SEARCH_DESCRIPTION_PROMPT,
     search_q_param         |-> DEFAULT_CHAT_SEARCH_Q_PARAM_PROMPT,
     search_index_uid_param |-> DEFAULT_CHAT_SEARCH_INDEX_UID_PARAM_PROMPT,
     pre_query              |-> DEFAULT_CHAT_PRE_QUERY_PROMPT]

\* ChatCompletionSettings::default(), the value of unwrap_or_default()
SettingsDefault ==
    [source   |-> DbSourceDefault,
     base_api |-> None,
     api_key  |-> None,
     prompts  |-> DbPromptsDefault]

\* impl From<ChatCompletionSource> for DbChatCompletionSource
SourceFrom(source) ==
    CASE source = "openAi" -> "OpenAi"

----------------------------------------------------------------------------
(* Patch documents: GlobalChatSettings and ChatPrompts *)

ChatPrompts ==
    [system                 : SettingOf(Texts),
     search_description     : SettingOf(Texts),
     search_q_param         : SettingOf(Texts),
     search_index_uid_param : SettingOf(Texts),
     pre_query              : SettingOf(Texts)]

GlobalChatSettings ==
    [source   : SettingOf(WireSources),
     base_api : SettingOf(BaseApis),
     api_key  : SettingOf(ApiKeys),
     prompts  : SettingOf(ChatPrompts)]

One(b) == IF b THEN 1 ELSE 0

\* number of keys present in a ChatPrompts document
PromptKeys(q) ==
    One(q.system # NotSet) + One(q.search_description # NotSet)
    + One(q.search_q_param # NotSet) + One(q.search_index_uid_param # NotSet)
    + One(q.pre_query # NotSet)

\* number of keys present (with null or with a value) in a patch document,
\* the keys inside "prompts" included
Keys(new) ==
    One(new.source # NotSet) + One(new.base_api # NotSet)
    + One(new.api_key # NotSet) + One(new.prompts # NotSet)
    + (IF Tag(new.prompts) = "Set" THEN PromptKeys(SetValue(new.prompts)) ELSE 0)

\* patch documents of the one-request-at-a-time runs
Patches == {new \in GlobalChatSettings : Keys(new) <= MaxKeys}

\* patch documents of the concurrent runs
ConcPatches == {new \in GlobalChatSettings : Keys(new) <= ConcKeys}

EmptyPatch ==
    [source |-> NotSet, base_api |-> NotSet, api_key |-> NotSet, prompts |-> NotSet]

----------------------------------------------------------------------------
(* patch_settings, settings.rs:73-122: the merge of a patch document into
   the record loaded from the store *)

\* one member of a ChatPrompts document, with what null and absence give
Member(s, onReset, onNotSet) ==
    CASE Tag(s) = "Set" -> SetValue(s)
      [] Tag(s) = "Reset" -> onReset
      [] Tag(s) = "NotSet" -> onNotSet

\* the prompts with what a null and an absent "prompts" give, and per member
\* what null and absence give
PromptsWith(old, new, onReset, onNotSet, memberReset, memberNotSet) ==
    CASE Tag(new.prompts) = "Set" ->
           LET q == SetValue(new.prompts) IN
           [f \in PromptFields |-> Member(q[f], memberReset[f], memberNotSet[f])]
      [] Tag(new.prompts) = "Reset" -> onReset
      [] Tag(new.prompts) = "NotSet" -> onNotSet

\* slip: a null pre_query keeps the stored text
MergePromptsResetKeeps(old, new) ==
    PromptsWith(old, new, DbPromptsDefault, old.prompts,
                [DbPromptsDefault EXCEPT !.pre_query = old.prompts.pre_query],
                old.prompts)

\* slip: an absent member of "prompts" falls back to its default
MergePromptsAbsentDefaults(old, new) ==
    PromptsWith(old, new, DbPromptsDefault, old.prompts,
                DbPromptsDefault, DbPromptsDefault)

\* slip: a null "prompts" keeps the stored prompts
MergePromptsNullCarries(old, new) ==
    PromptsWith(old, new, old.prompts, old.prompts,
                DbPromptsDefault, old.prompts)

\* slip: two arms of an absent member read the stored text of the member
\* above them
MergePromptsShifted(old, new) ==
    PromptsWith(old, new, DbPromptsDefault, old.prompts, DbPromptsDefault,
                [old.prompts EXCEPT
                    !.search_description = old.prompts.system,
                    !.search_q_param = old.prompts.search_description])

\* settings.rs:73-103
MergePrompts(old, new) ==
    CASE Tag(new.prompts) = "Set" ->
           LET new_prompts == SetValue(new.prompts) IN
           [system |->
               CASE Tag(new_prompts.system) = "Set" -> SetValue(new_prompts.system)
                 [] Tag(new_prompts.system) = "Reset" -> DEFAULT_CHAT_SYSTEM_PROMPT
                 [] Tag(new_prompts.system) = "NotSet" -> old.prompts.system,
            search_description |->
               CASE Tag(new_prompts.search_description) = "Set" ->
                        SetValue(new_prompts.search_description)
                 [] Tag(new_prompts.search_description) = "Reset" ->
                        DEFAULT_CHAT_SEARCH_DESCRIPTION_PROMPT
                 [] Tag(new_prompts.search_description) = "NotSet" ->
                        old.prompts.search_description,
            search_q_param |->
               CASE Tag(new_prompts.search_q_param) = "Set" ->
                        SetValue(new_prompts.search_q_param)
                 [] Tag(new_prompts.search_q_param) = "Reset" ->
                        DEFAULT_CHAT_SEARCH_Q_PARAM_PROMPT
                 [] Tag(new_prompts.search_q_param) = "NotSet" ->
                        old.prompts.search_q_param,
            search_index_uid_param |->
               CASE Tag(new_prompts.search_index_uid_param) = "Set" ->
                        SetValue(new_prompts.search_index_uid_param)
                 [] Tag(new_prompts.search_index_uid_param) = "Reset" ->
                        DEFAULT_CHAT_SEARCH_INDEX_UID_PARAM_PROMPT
                 [] Tag(new_prompts.search_index_uid_param) = "NotSet" ->
                        old.prompts.search_index_uid_param,
            pre_query |->
               CASE Tag(new_prompts.pre_query) = "Set" -> SetValue(new_prompts.pre_query)
                 [] Tag(new_prompts.pre_query) = "Reset" -> DEFAULT_CHAT_PRE_QUERY_PROMPT
                 [] Tag(new_prompts.pre_query) = "NotSet" -> old.prompts.pre_query]
      [] Tag(new.prompts) = "Reset" -> DbPromptsDefault
      [] Tag(new.prompts) = "NotSet" -> old.prompts

\* slip: an absent baseApi clears the stored one
MergeSettingsAbsentClears(old, new) ==
    [source   |-> Member(new.source, DbSourceDefault, old.source),
     base_api |-> CASE Tag(new.base_api) = "Set" -> Some(SetValue(new.base_api))
                    [] OTHER -> None,
     api_key  |-> CASE Tag(new.api_key) = "Set" -> Some(SetValue(new.api_key))
                    [] Tag(new.api_key) = "Reset" -> None
                    [] OTHER -> old.api_key,
     prompts  |-> PromptsWith(old, new, DbPromptsDefault, old.prompts,
                              DbPromptsDefault, old.prompts)]

\* slip: a baseApi that is not a value is stored as the patch gave it
MergeSettingsStoresSetting(old, new) ==
    [source   |-> Member(new.source, DbSourceDefault, old.source),
     base_api |-> CASE Tag(new.base_api) = "Set" -> Some(SetValue(new.base_api))
                    [] OTHER -> new.base_api,
     api_key  |-> CASE Tag(new.api_key) = "Set" -> Some(SetValue(new.api_key))
                    [] Tag(new.api_key) = "Reset" -> None
                    [] OTHER -> old.api_key,
     prompts  |-> PromptsWith(old, new, DbPromptsDefault, old.prompts,
                              DbPromptsDefault, old.prompts)]

\* slip: a null apiKey keeps the stored key
MergeSettingsNullKeepsKey(old, new) ==
    [source   |-> Member(new.source, DbSourceDefault, old.source),
     base_api |-> CASE Tag(new.base_api) = "Set" -> Some(SetValue(new.base_api))
                    [] Tag(new.base_api) = "Reset" -> None
                    [] OTHER -> old.base_api,
     api_key  |-> CASE Tag(new.api_key) = "Set" -> Some(SetValue(new.api_key))
                    [] OTHER -> old.api_key,
     prompts  |-> PromptsWith(old, new, DbPromptsDefault, old.prompts,
                              DbPromptsDefault, old.prompts)]

\* settings.rs:105-122
MergeSettings(old, new) ==
    [source |->
        CASE Tag(new.source) = "Set" -> SourceFrom(SetValue(new.source))
          [] Tag(new.source) = "Reset" -> DbSourceDefault
          [] Tag(new.source) = "NotSet" -> old.source,
     base_api |->
        CASE Tag(new.base_api) = "Set" -> Some(SetValue(new.base_api))
          [] Tag(new.base_api) = "Reset" -> None
          [] Tag(new.base_api) = "NotSet" -> old.base_api,
     api_key |->
        CASE Tag(new.api_key) = "Set" -> Some(SetValue(new.api_key))
          [] Tag(new.api_key) = "Reset" -> None
          [] Tag(new.api_key) = "NotSet" -> old.api_key,
     prompts |-> MergePrompts(old, new)]

----------------------------------------------------------------------------
(* The store and the secret mask *)

\* the mask hide_secrets leaves in place of a present api_key
MaskedSecret == "XXX..."

\* ChatCompletionSettings::hide_secrets
HideSecrets(s) ==
    [s EXCEPT !.api_key = IF IsSome(@) THEN Some(MaskedSecret) ELSE None]

\* Option::unwrap_or_default
UnwrapOrDefault(o) == IF IsSome(o) THEN Unwrap(o) ELSE SettingsDefault

\* IndexScheduler::chat_settings(txn, uid)
ChatSettings(view, uid) == view[uid]

\* IndexScheduler::put_chat_settings(wtxn, uid, settings)
PutChatSettings(view, uid, s) == [view EXCEPT ![uid] = Some(s)]

\* IndexScheduler::delete_chat_settings(wtxn, uid): the view after it
DeleteChatSettings(view, uid) == [view EXCEPT ![uid] = None]

----------------------------------------------------------------------------
(* Requests and responses *)

Requests(W, P) ==
    [op : {"get", "delete"}, workspace_uid : W, new : {None}]
    \cup [op : {"patch"}, workspace_uid : W, new : {Some(p) : p \in P}]

Response(status, body) == [status |-> status, body |-> body]

InFlight(r) == pc[r] \notin {"idle", "done"}

Op(r) == Unwrap(req[r]).op
Uid(r) == Unwrap(req[r]).workspace_uid
New(r) == Unwrap(Unwrap(req[r]).new)

\* history: what a read in flight could see of its workspace, one more value
\* with every commit
Observe(committed) ==
    [r \in Reqs |->
        IF InFlight(r) /\ Op(r) = "get"
        THEN window[r] \cup {committed[Uid(r)]}
        ELSE window[r]]

\* history: the three patches {"apiKey": "sk-1"}, {"apiKey": null} and
\* {"prompts": {"system": "Hi"}}, in this order
Scenario ==
    << [EmptyPatch EXCEPT !.api_key = Set("sk-1")],
       [EmptyPatch EXCEPT !.api_key = Reset],
       [EmptyPatch EXCEPT !.prompts =
           Set([system                 |-> Set("Hi"),
                search_description     |-> NotSet,
                search_q_param         |-> NotSet,
                search_index_uid_param |-> NotSet,
                pre_query              |-> NotSet])] >>

\* history: where the writes to a workspace stand in Scenario once the patch
\* `new` is committed over the record `before`: "first" when the workspace
\* had no record and new is the first patch, "second" and "third" when the
\* next patch of Scenario follows directly, "off" otherwise
ScenarioAfter(at, before, new) ==
    CASE before = None /\ new = Scenario[1] -> "first"
      [] at = "first" /\ new = Scenario[2] -> "second"
      [] at = "second" /\ new = Scenario[3] -> "third"
      [] OTHER -> "off"

\* history updated by the commit of r's patch
PatchHistory(r) ==
    /\ atomic' = [atomic EXCEPT ![Uid(r)] =
           Some(MergeSettings(UnwrapOrDefault(@), New(r)))]
    /\ window' = Observe(Unwrap(txn[r]))
    /\ didCommit' = [didCommit EXCEPT ![r] = TRUE]
    /\ lastWrite' = [lastWrite EXCEPT ![Uid(r)] =
           IF @ = "deleted" THEN "recreated"
           ELSE IF IsSome(db[Uid(r)]) THEN "patched" ELSE "created"]
    /\ scenario' = [scenario EXCEPT ![Uid(r)] =
           ScenarioAfter(@, db[Uid(r)], New(r))]
    /\ UNCHANGED <<overlap, pre, first>>

\* history updated by the commit of r's delete
DeleteHistory(r) ==
    /\ atomic' = [atomic EXCEPT ![Uid(r)] = None]
    /\ window' = Observe(Unwrap(txn[r]))
    /\ didCommit' = [didCommit EXCEPT ![r] = TRUE]
    /\ lastWrite' = [lastWrite EXCEPT ![Uid(r)] = "deleted"]
    /\ scenario' = [scenario EXCEPT ![Uid(r)] = "off"]
    /\ UNCHANGED <<overlap, pre, first>>

TypeOK ==
    /\ writer \in {{}} \cup {{r} : r \in Reqs}
    /\ nOps \in 0..MaxOps
    /\ \A r \in Reqs :
          pc[r] \in {"idle", "start", "rtxn", "wtxn", "loaded", "merged",
                     "put", "deleted", "done"}

\* a record an earlier run of the server left in the store
PersistedSettings ==
    [source   |-> "OpenAi",
     base_api |-> Some("https://api.mistral.ai/v1"),
     api_key  |-> Some("sk-1"),
     prompts  |-> [DbPromptsDefault EXCEPT !.search_description = "Hi"]]

\* the store is persistent: when the server starts, each workspace has no
\* record or the record an earlier run committed
Init ==
    /\ db \in [Workspaces -> {None, Some(PersistedSettings)}]
    /\ writer = {}
    /\ txn = [r \in Reqs |-> None]
    /\ pc = [r \in Reqs |-> "idle"]
    /\ req = [r \in Reqs |-> None]
    /\ old_settings = [r \in Reqs |-> None]
    /\ settings = [r \in Reqs |-> None]
    /\ resp = [r \in Reqs |-> None]
    /\ atomic = db
    /\ window = [r \in Reqs |-> {}]
    /\ overlap = [r \in Reqs |-> {}]
    /\ pre = [r \in Reqs |-> None]
    /\ didCommit = [r \in Reqs |-> FALSE]
    /\ lastWrite = [w \in Workspaces |-> "none"]
    /\ scenario = [w \in Workspaces |-> "off"]
    /\ first = [r \in Reqs |-> None]
    /\ nOps = 0

\* the router hands a request to its handler (settings.rs:25-32, 41, 66, 146)
Receive(r, request) ==
    /\ pc[r] = "idle"
    /\ pc' = [pc EXCEPT ![r] = "start"]
    /\ req' = [req EXCEPT ![r] = Some(request)]
    /\ window' = [window EXCEPT ![r] =
           IF request.op = "get" THEN {db[request.workspace_uid]} ELSE {}]
    /\ overlap' = [overlap EXCEPT ![r] = {s \in Reqs \ {r} : InFlight(s)}]
    /\ pre' = [pre EXCEPT ![r] = Some(db)]
    /\ UNCHANGED <<db, writer, txn, old_settings, settings, resp,
                   atomic, didCommit, lastWrite, scenario, first>>

\* the response has been sent and the handler's locals are dropped
Finish(r) ==
    /\ pc[r] = "done"
    /\ pc' = [pc EXCEPT ![r] = "idle"]
    /\ req' = [req EXCEPT ![r] = None]
    /\ old_settings' = [old_settings EXCEPT ![r] = None]
    /\ settings' = [settings EXCEPT ![r] = None]
    /\ resp' = [resp EXCEPT ![r] = None]
    /\ window' = [window EXCEPT ![r] = {}]
    /\ overlap' = [overlap EXCEPT ![r] = {}]
    /\ pre' = [pre EXCEPT ![r] = None]
    /\ didCommit' = [didCommit EXCEPT ![r] = FALSE]
    /\ first' = [first EXCEPT ![r] = None]
    /\ UNCHANGED <<db, writer, txn, atomic, lastWrite, scenario, nOps>>

----------------------------------------------------------------------------
(* get_settings, settings.rs:34-56 *)

\* slip: the read transaction sees what a writer has put and not committed
ReadTxnDirty(r) ==
    /\ pc[r] = "start"
    /\ Op(r) = "get"
    /\ txn' = [txn EXCEPT ![r] =
           IF \E w \in writer : IsSome(txn[w])
           THEN txn[CHOOSE w \in writer : IsSome(txn[w])]
           ELSE Some(db)]
    /\ pc' = [pc EXCEPT ![r] = "rtxn"]
    /\ UNCHANGED <<db, writer, req, old_settings, settings, resp, hist, nOps>>

\* settings.rs:44  index_scheduler.read_txn()?
ReadTxn(r) ==
    /\ pc[r] = "start"
    /\ Op(r) = "get"
    /\ txn' = [txn EXCEPT ![r] = Some(db)]
    /\ pc' = [pc EXCEPT ![r] = "rtxn"]
    /\ UNCHANGED <<db, writer, req, old_settings, settings, resp, hist, nOps>>

\* the answer of get_settings to what it found, with the body it sends
GetAnswers(r, status, body) ==
    /\ pc[r] = "rtxn"
    /\ settings' = [settings EXCEPT ![r] = body]
    /\ resp' = [resp EXCEPT ![r] = Some(Response(status, body))]
    /\ txn' = [txn EXCEPT ![r] = None]
    /\ pc' = [pc EXCEPT ![r] = "done"]
    /\ UNCHANGED <<db, writer, req, old_settings, hist, nOps>>

\* slip: a workspace without a record is answered with the default record
GetSettingsOrDefault(r) ==
    /\ pc[r] = "rtxn"
    /\ GetAnswers(r, "Ok",
          Some(HideSecrets(UnwrapOrDefault(ChatSettings(Unwrap(txn[r]), Uid(r))))))

\* slip: the record is sent without hide_secrets
GetSettingsUnmasked(r) ==
    /\ pc[r] = "rtxn"
    /\ LET found == ChatSettings(Unwrap(txn[r]), Uid(r)) IN
       IF IsSome(found)
       THEN GetAnswers(r, "Ok", found)
       ELSE GetAnswers(r, "ChatWorkspaceNotFound", None)

\* settings.rs:45-55  lookup, not-found or hide_secrets and Ok
GetSettings(r) ==
    /\ pc[r] = "rtxn"
    /\ LET found == ChatSettings(Unwrap(txn[r]), Uid(r)) IN
       IF IsSome(found)
       THEN /\ settings' = [settings EXCEPT ![r] = Some(HideSecrets(Unwrap(found)))]
            /\ resp' = [resp EXCEPT ![r] =
                           Some(Response("Ok", Some(HideSecrets(Unwrap(found)))))]
       ELSE /\ resp' = [resp EXCEPT ![r] =
                           Some(Response("ChatWorkspaceNotFound", None))]
            /\ UNCHANGED settings
    /\ txn' = [txn EXCEPT ![r] = None]
    /\ pc' = [pc EXCEPT ![r] = "done"]
    /\ UNCHANGED <<db, writer, req, old_settings, hist, nOps>>

----------------------------------------------------------------------------
(* patch_settings, settings.rs:58-137, and delete_settings, 139-159 *)

\* settings.rs:69 and 149  index_scheduler.write_txn()?: one writer at a time
WriteTxn(r) ==
    /\ pc[r] = "start"
    /\ Op(r) \in {"patch", "delete"}
    /\ writer = {}
    /\ writer' = {r}
    /\ txn' = [txn EXCEPT ![r] = Some(db)]
    /\ pc' = [pc EXCEPT ![r] = "wtxn"]
    /\ UNCHANGED <<db, req, old_settings, settings, resp, hist, nOps>>

\* slip: the record is looked up as the store was when the request arrived,
\* not inside the write transaction
PatchLoadStale(r) ==
    /\ pc[r] = "wtxn"
    /\ Op(r) = "patch"
    /\ old_settings' = [old_settings EXCEPT ![r] =
           Some(UnwrapOrDefault(ChatSettings(Unwrap(pre[r]), Uid(r))))]
    /\ pc' = [pc EXCEPT ![r] = "loaded"]
    /\ UNCHANGED <<db, writer, txn, req, settings, resp, hist, nOps>>

\* slip: a patch of a workspace without a record is answered not-found
PatchLoadExisting(r) ==
    /\ pc[r] = "wtxn"
    /\ Op(r) = "patch"
    /\ LET found == ChatSettings(Unwrap(txn[r]), Uid(r)) IN
       IF IsSome(found)
       THEN /\ old_settings' = [old_settings EXCEPT ![r] = found]
            /\ pc' = [pc EXCEPT ![r] = "loaded"]
            /\ UNCHANGED <<writer, txn, resp>>
       ELSE /\ txn' = [txn EXCEPT ![r] = None]
            /\ writer' = {}
            /\ resp' = [resp EXCEPT ![r] =
                           Some(Response("ChatWorkspaceNotFound", None))]
            /\ pc' = [pc EXCEPT ![r] = "done"]
            /\ UNCHANGED old_settings
    /\ UNCHANGED <<db, req, settings, hist, nOps>>

\* settings.rs:70-71  chat_settings(&mut wtxn, &workspace_uid)?.unwrap_or_default()
PatchLoad(r) ==
    /\ pc[r] = "wtxn"
    /\ Op(r) = "patch"
    /\ old_settings' = [old_settings EXCEPT ![r] =
           Some(UnwrapOrDefault(ChatSettings(Unwrap(txn[r]), Uid(r))))]
    /\ pc' = [pc EXCEPT ![r] = "loaded"]
    /\ UNCHANGED <<db, writer, txn, req, settings, resp, hist, nOps>>

\* settings.rs:73-122
PatchMerge(r) ==
    /\ pc[r] = "loaded"
    /\ settings' = [settings EXCEPT ![r] =
           Some(MergeSettings(Unwrap(old_settings[r]), New(r)))]
    /\ pc' = [pc EXCEPT ![r] = "merged"]
    /\ UNCHANGED <<db, writer, txn, req, old_settings, resp, hist, nOps>>

\* slip: the record is put under every workspace, not under the one of the
\* request
PatchPutEverywhere(r) ==
    /\ pc[r] = "merged"
    /\ txn' = [txn EXCEPT ![r] = Some([w \in Workspaces |-> settings[r]])]
    /\ pc' = [pc EXCEPT ![r] = "put"]
    /\ UNCHANGED <<db, writer, req, old_settings, settings, resp, hist, nOps>>

\* settings.rs:133  put_chat_settings(&mut wtxn, &workspace_uid, &settings)?
PatchPut(r) ==
    /\ pc[r] = "merged"
    /\ txn' = [txn EXCEPT ![r] =
           Some(PutChatSettings(Unwrap(txn[r]), Uid(r), Unwrap(settings[r])))]
    /\ pc' = [pc EXCEPT ![r] = "put"]
    /\ UNCHANGED <<db, writer, req, old_settings, settings, resp, hist, nOps>>

\* the commit of r's patch, answered with `answer`
PatchCommitAnswering(r, answer) ==
    /\ pc[r] = "put"
    /\ db' = Unwrap(txn[r])
    /\ writer' = {}
    /\ txn' = [txn EXCEPT ![r] = None]
    /\ resp' = [resp EXCEPT ![r] = Some(Response("Ok", answer))]
    /\ pc' = [pc EXCEPT ![r] = "done"]
    /\ PatchHistory(r)
    /\ UNCHANGED <<req, old_settings, settings, nOps>>

\* slip: the response is built from the record that was loaded, not from the
\* record that was put
PatchCommitAnswersOld(r) == PatchCommitAnswering(r, old_settings[r])

\* slip: the response of a patch hides the secret as the response of a read
\* does
PatchCommitMasked(r) ==
    PatchCommitAnswering(r, Some(HideSecrets(Unwrap(settings[r]))))

\* settings.rs:134-136  wtxn.commit()? and the Ok response
PatchCommit(r) ==
    /\ pc[r] = "put"
    /\ db' = Unwrap(txn[r])
    /\ writer' = {}
    /\ txn' = [txn EXCEPT ![r] = None]
    /\ resp' = [resp EXCEPT ![r] = Some(Response("Ok", settings[r]))]
    /\ pc' = [pc EXCEPT ![r] = "done"]
    /\ PatchHistory(r)
    /\ UNCHANGED <<req, old_settings, settings, nOps>>

\* slip: the boolean of delete_chat_settings is ignored
DeleteSettingsAlways(r) ==
    /\ pc[r] = "wtxn"
    /\ Op(r) = "delete"
    /\ txn' = [txn EXCEPT ![r] = Some(DeleteChatSettings(Unwrap(txn[r]), Uid(r)))]
    /\ pc' = [pc EXCEPT ![r] = "deleted"]
    /\ UNCHANGED <<db, writer, req, old_settings, settings, resp, hist, nOps>>

\* slip: the not-found exit of a delete keeps its write transaction open
DeleteSettingsHoldsLock(r) ==
    /\ pc[r] = "wtxn"
    /\ Op(r) = "delete"
    /\ IF IsSome(ChatSettings(Unwrap(txn[r]), Uid(r)))
       THEN /\ txn' = [txn EXCEPT ![r] =
                   Some(DeleteChatSettings(Unwrap(txn[r]), Uid(r)))]
            /\ pc' = [pc EXCEPT ![r] = "deleted"]
            /\ UNCHANGED resp
       ELSE /\ resp' = [resp EXCEPT ![r] =
                           Some(Response("ChatWorkspaceNotFound", None))]
            /\ pc' = [pc EXCEPT ![r] = "done"]
            /\ UNCHANGED txn
    /\ UNCHANGED <<db, writer, req, old_settings, settings, hist, nOps>>

\* settings.rs:150, 153-157  delete_chat_settings(&mut wtxn, &workspace_uid)?
DeleteSettings(r) ==
    /\ pc[r] = "wtxn"
    /\ Op(r) = "delete"
    /\ IF IsSome(ChatSettings(Unwrap(txn[r]), Uid(r)))
       THEN /\ txn' = [txn EXCEPT ![r] =
                   Some(DeleteChatSettings(Unwrap(txn[r]), Uid(r)))]
            /\ pc' = [pc EXCEPT ![r] = "deleted"]
            /\ UNCHANGED <<writer, resp>>
       ELSE \* the write transaction is dropped without a commit
            /\ txn' = [txn EXCEPT ![r] = None]
            /\ writer' = {}
            /\ resp' = [resp EXCEPT ![r] =
                           Some(Response("ChatWorkspaceNotFound", None))]
            /\ pc' = [pc EXCEPT ![r] = "done"]
    /\ UNCHANGED <<db, req, old_settings, settings, hist, nOps>>

\* slip: the write transaction of a delete is dropped, not committed, and
\* the delete is answered NoContent all the same
DeleteCommitDropped(r) ==
    /\ pc[r] = "deleted"
    /\ writer' = {}
    /\ txn' = [txn EXCEPT ![r] = None]
    /\ resp' = [resp EXCEPT ![r] = Some(Response("NoContent", None))]
    /\ pc' = [pc EXCEPT ![r] = "done"]
    /\ DeleteHistory(r)
    /\ UNCHANGED <<db, req, old_settings, settings, nOps>>

\* settings.rs:151-152  wtxn.commit()? and the NoContent response
DeleteCommit(r) ==
    /\ pc[r] = "deleted"
    /\ db' = Unwrap(txn[r])
    /\ writer' = {}
    /\ txn' = [txn EXCEPT ![r] = None]
    /\ resp' = [resp EXCEPT ![r] = Some(Response("NoContent", None))]
    /\ pc' = [pc EXCEPT ![r] = "done"]
    /\ DeleteHistory(r)
    /\ UNCHANGED <<req, old_settings, settings, nOps>>

\* slip: a failure met after the put or the delete leaves what the
\* transaction wrote in the store
StoreFailsAfterWrite(r) ==
    /\ pc[r] \in {"start", "rtxn", "wtxn", "merged", "put", "deleted"}
    /\ db' = IF pc[r] \in {"put", "deleted"} THEN Unwrap(txn[r]) ELSE db
    /\ txn' = [txn EXCEPT ![r] = None]
    /\ writer' = writer \ {r}
    /\ resp' = [resp EXCEPT ![r] = Some(Response("StoreError", None))]
    /\ pc' = [pc EXCEPT ![r] = "done"]
    /\ UNCHANGED <<req, old_settings, settings, hist, nOps>>

\* a `?` on a failed store call (settings.rs:44, 45, 69, 71, 133, 134, 149,
\* 150, 151): the handler returns the error and its transaction is dropped
StoreFails(r) ==
    /\ pc[r] \in {"start", "rtxn", "wtxn", "merged", "put", "deleted"}
    /\ txn' = [txn EXCEPT ![r] = None]
    /\ writer' = writer \ {r}
    /\ resp' = [resp EXCEPT ![r] = Some(Response("StoreError", None))]
    /\ pc' = [pc EXCEPT ![r] = "done"]
    /\ UNCHANGED <<db, req, old_settings, settings, hist, nOps>>

Handler(r) ==
    \/ ReadTxn(r)
    \/ GetSettings(r)
    \/ WriteTxn(r)
    \/ PatchLoad(r)
    \/ PatchMerge(r)
    \/ PatchPut(r)
    \/ PatchCommit(r)
    \/ DeleteSettings(r)
    \/ DeleteCommit(r)
    \/ StoreFails(r)
    \/ Finish(r)

----------------------------------------------------------------------------
(* Concurrent requests: MaxOps requests, NumReqs of them at a time *)

Arrive(r, request) ==
    /\ nOps < MaxOps
    /\ nOps' = nOps + 1
    /\ Receive(r, request)

Next ==
    \E r \in Reqs :
        \/ \E request \in Requests(Workspaces, ConcPatches) : Arrive(r, request)
        \/ Handler(r)

Spec == Init /\ [][Next]_vars

(* One request at a time on one workspace, any number of them *)

ArriveSeq(r, request) ==
    /\ Receive(r, request)
    /\ UNCHANGED nOps

\* the client that got the answer of its patch sends the same patch again
Resend(r) ==
    /\ pc[r] = "done"
    /\ Op(r) = "patch"
    /\ Unwrap(resp[r]).status = "Ok"
    /\ pc' = [pc EXCEPT ![r] = "start"]
    /\ old_settings' = [old_settings EXCEPT ![r] = None]
    /\ settings' = [settings EXCEPT ![r] = None]
    /\ resp' = [resp EXCEPT ![r] = None]
    /\ overlap' = [overlap EXCEPT ![r] = {s \in Reqs \ {r} : InFlight(s)}]
    /\ pre' = [pre EXCEPT ![r] = Some(db)]
    /\ didCommit' = [didCommit EXCEPT ![r] = FALSE]
    /\ first' = [first EXCEPT ![r] = IF @ = None THEN Unwrap(resp[r]).body ELSE @]
    /\ UNCHANGED <<db, writer, txn, req, window, atomic, lastWrite, scenario, nOps>>

NextSeq ==
    \E r \in SeqReqs :
        \/ \E request \in Requests(SeqWorkspaces, Patches) : ArriveSeq(r, request)
        \/ Handler(r)
        \/ Resend(r)

InitSeq ==
    /\ Init
    /\ \A w \in Workspaces \ SeqWorkspaces : db[w] = Some(PersistedSettings)

SpecSeq == InitSeq /\ [][NextSeq]_vars

(* Concurrent requests under fair scheduling: the runtime runs every handler
   that can take its next step, and the store hands its write lock to a
   waiting writer once it is free.  A store failure may happen and is never
   bound to happen. *)

Step(r) ==
    \/ ReadTxn(r)
    \/ GetSettings(r)
    \/ WriteTxn(r)
    \/ PatchLoad(r)
    \/ PatchMerge(r)
    \/ PatchPut(r)
    \/ PatchCommit(r)
    \/ DeleteSettings(r)
    \/ DeleteCommit(r)

Fairness == \A r \in Reqs : WF_vars(Step(r)) /\ SF_vars(WriteTxn(r))

FairSpec == Spec /\ Fairness

----------------------------------------------------------------------------
(* Properties of one request at a time (SpecSeq) *)

Status(r) == Unwrap(resp[r]).status
Body(r) == Unwrap(resp[r]).body

\* the handler of r has returned
Done(r, op) == pc[r] = "done" /\ Op(r) = op

\* the patch of r has been committed and answered
PatchDone(r) == Done(r, "patch") /\ Status(r) = "Ok"

\* the record of r's workspace when r arrived, and now
Before(r) == Unwrap(pre[r])[Uid(r)]
Stored(r) == db[Uid(r)]

\* C1: a patch with a null member stores that member's default, whatever
\* the stored value was and whatever the rest of the patch is: source,
\* baseApi, apiKey and each of the five members of prompts.
C1_ResetStoresDefault ==
    \A r \in Reqs :
        PatchDone(r) =>
            /\ IsSome(Stored(r))
            /\ LET new == New(r)
                   now == Unwrap(Stored(r)) IN
               /\ new.source = Reset => now.source = "OpenAi"
               /\ new.base_api = Reset => now.base_api = None
               /\ new.api_key = Reset => now.api_key = None
               /\ Tag(new.prompts) = "Set" =>
                    LET q == SetValue(new.prompts) IN
                    /\ q.system = Reset =>
                         now.prompts.system = DEFAULT_CHAT_SYSTEM_PROMPT
                    /\ q.search_description = Reset =>
                         now.prompts.search_description
                            = DEFAULT_CHAT_SEARCH_DESCRIPTION_PROMPT
                    /\ q.search_q_param = Reset =>
                         now.prompts.search_q_param
                            = DEFAULT_CHAT_SEARCH_Q_PARAM_PROMPT
                    /\ q.search_index_uid_param = Reset =>
                         now.prompts.search_index_uid_param
                            = DEFAULT_CHAT_SEARCH_INDEX_UID_PARAM_PROMPT
                    /\ q.pre_query = Reset =>
                         now.prompts.pre_query = DEFAULT_CHAT_PRE_QUERY_PROMPT

\* the patch {"prompts": {"preQuery": null}} over a record that had its own
\* pre_query text
C1_Witness ==
    \E r \in Reqs :
        /\ PatchDone(r)
        /\ IsSome(Before(r))
        /\ Unwrap(Before(r)).prompts.pre_query = "Hi"
        /\ Tag(New(r).prompts) = "Set"
        /\ SetValue(New(r).prompts).pre_query = Reset
        /\ Unwrap(Stored(r)).prompts.pre_query = DEFAULT_CHAT_PRE_QUERY_PROMPT

\* C2: the patch {} on a workspace that has a record leaves the record as it
\* was, field by field.
C2_EmptyPatchIsIdentity ==
    \A r \in Reqs :
        (PatchDone(r) /\ New(r) = EmptyPatch /\ IsSome(Before(r))) =>
            LET was == Unwrap(Before(r))
                now == Unwrap(Stored(r)) IN
            /\ IsSome(Stored(r))
            /\ now.source = was.source
            /\ now.base_api = was.base_api
            /\ now.api_key = was.api_key
            /\ \A f \in PromptFields : now.prompts[f] = was.prompts[f]

C2_Witness ==
    \E r \in Reqs :
        /\ PatchDone(r)
        /\ New(r) = EmptyPatch
        /\ IsSome(Before(r))
        /\ IsSome(Unwrap(Before(r)).base_api)
        /\ IsSome(Unwrap(Before(r)).api_key)
        /\ Unwrap(Before(r)).prompts # DbPromptsDefault
        /\ Stored(r) = Before(r)

\* the patch {"prompts": {"system": x}}
SystemOnly(x) ==
    [source |-> NotSet, base_api |-> NotSet, api_key |-> NotSet,
     prompts |-> Set([system                 |-> Set(x),
                      search_description     |-> NotSet,
                      search_q_param         |-> NotSet,
                      search_index_uid_param |-> NotSet,
                      pre_query              |-> NotSet])]

\* C3: the patch {"prompts": {"system": x}} stores system = x, keeps the
\* other four prompts of the stored record (not their defaults) and keeps
\* source, base_api and api_key.
C3_SystemOnlyKeepsTheRest ==
    \A r \in Reqs : \A x \in Texts :
        (PatchDone(r) /\ New(r) = SystemOnly(x) /\ IsSome(Before(r))) =>
            LET was == Unwrap(Before(r))
                now == Unwrap(Stored(r)) IN
            /\ IsSome(Stored(r))
            /\ now.prompts.system = x
            /\ now.prompts.search_description = was.prompts.search_description
            /\ now.prompts.search_q_param = was.prompts.search_q_param
            /\ now.prompts.search_index_uid_param
                  = was.prompts.search_index_uid_param
            /\ now.prompts.pre_query = was.prompts.pre_query
            /\ now.source = was.source
            /\ now.base_api = was.base_api
            /\ now.api_key = was.api_key

\* system set over a record whose system was the default, whose
\* search_description was not, and which had an api key
C3_Witness ==
    \E r \in Reqs :
        /\ PatchDone(r)
        /\ New(r) = SystemOnly("Hi")
        /\ IsSome(Before(r))
        /\ Unwrap(Before(r)).prompts.system = DEFAULT_CHAT_SYSTEM_PROMPT
        /\ Unwrap(Before(r)).prompts.search_description = "Hi"
        /\ Unwrap(Before(r)).prompts.pre_query = DEFAULT_CHAT_PRE_QUERY_PROMPT
        /\ IsSome(Unwrap(Before(r)).api_key)
        /\ Unwrap(Stored(r)).prompts.system = "Hi"
        /\ Unwrap(Stored(r)).prompts.search_description = "Hi"
        /\ Unwrap(Stored(r)).api_key = Unwrap(Before(r)).api_key

\* C4: "prompts": null stores the five default prompts whatever was stored;
\* an absent "prompts" keeps the stored prompts as a whole.
C4_PromptsNullAndAbsent ==
    \A r \in Reqs :
        PatchDone(r) =>
            LET now == Unwrap(Stored(r)) IN
            /\ IsSome(Stored(r))
            /\ New(r).prompts = Reset =>
                 /\ now.prompts.system = DEFAULT_CHAT_SYSTEM_PROMPT
                 /\ now.prompts.search_description
                       = DEFAULT_CHAT_SEARCH_DESCRIPTION_PROMPT
                 /\ now.prompts.search_q_param = DEFAULT_CHAT_SEARCH_Q_PARAM_PROMPT
                 /\ now.prompts.search_index_uid_param
                       = DEFAULT_CHAT_SEARCH_INDEX_UID_PARAM_PROMPT
                 /\ now.prompts.pre_query = DEFAULT_CHAT_PRE_QUERY_PROMPT
            /\ (New(r).prompts = NotSet /\ IsSome(Before(r))) =>
                 now.prompts = Unwrap(Before(r)).prompts

\* "prompts": null over a record with two prompts of its own
C4_Witness ==
    \E r \in Reqs :
        /\ PatchDone(r)
        /\ New(r).prompts = Reset
        /\ IsSome(Before(r))
        /\ Unwrap(Before(r)).prompts.system = "Hi"
        /\ Unwrap(Before(r)).prompts.search_index_uid_param = "Hi"
        /\ Unwrap(Stored(r)).prompts = DbPromptsDefault

\* C5: a patch is never answered not-found; on a workspace without a record
\* it creates one, the patch {} creating exactly the all-defaults record, and
\* a read that follows is not answered not-found.
C5_PatchCreates ==
    \A r \in Reqs :
        /\ Done(r, "patch") => Status(r) \in {"Ok", "StoreError"}
        /\ (PatchDone(r) /\ Before(r) = None) =>
              /\ IsSome(Stored(r))
              /\ New(r) = EmptyPatch => Stored(r) = Some(SettingsDefault)
        /\ (Done(r, "get") /\ lastWrite[Uid(r)] \in {"created", "recreated"}) =>
              Status(r) \in {"Ok", "StoreError"}

\* the patch {} on a workspace without a record
C5_Witness ==
    \E r \in Reqs :
        /\ PatchDone(r)
        /\ Before(r) = None
        /\ New(r) = EmptyPatch
        /\ Stored(r) = Some(SettingsDefault)
        /\ lastWrite[Uid(r)] = "created"

\* a read answered Ok after a patch created the record
C5_ReadAfterCreate ==
    \E r \in Reqs :
        /\ Done(r, "get")
        /\ lastWrite[Uid(r)] = "created"
        /\ Status(r) = "Ok"


\* C6: a delete of a workspace that has a record commits the removal and is
\* answered NoContent, and the read that follows is answered not-found; a
\* delete of a workspace without a record is answered not-found, commits
\* nothing and leaves the store as it was.
C6_DeleteSemantics ==
    \A r \in Reqs :
        /\ Done(r, "delete") =>
              /\ IsSome(Before(r)) => Status(r) \in {"NoContent", "StoreError"}
              /\ Before(r) = None =>
                    Status(r) \in {"ChatWorkspaceNotFound", "StoreError"}
              /\ Status(r) = "NoContent" =>
                    /\ didCommit[r]
                    /\ Stored(r) = None
                    /\ \A w \in Workspaces \ {Uid(r)} : db[w] = Unwrap(pre[r])[w]
              /\ Status(r) = "ChatWorkspaceNotFound" =>
                    /\ ~didCommit[r]
                    /\ txn[r] = None
                    /\ db = Unwrap(pre[r])
        /\ (Done(r, "get") /\ lastWrite[Uid(r)] = "deleted") =>
              Status(r) \in {"ChatWorkspaceNotFound", "StoreError"}

\* a read answered not-found after the delete of a record
C6_Witness ==
    \E r \in Reqs :
        /\ Done(r, "get")
        /\ lastWrite[Uid(r)] = "deleted"
        /\ Status(r) = "ChatWorkspaceNotFound"

\* a delete answered not-found
C6_DeleteOfNothing ==
    \E r \in Reqs :
        /\ Done(r, "delete")
        /\ Status(r) = "ChatWorkspaceNotFound"
        /\ db = Unwrap(pre[r])

\* C7: a read that the store serves is answered not-found exactly when the
\* workspace has no committed record, and otherwise Ok with the record with
\* its secret hidden; the store is as it was before the read.
C7_ReadSemantics ==
    \A r \in Reqs :
        Done(r, "get") =>
            /\ Status(r) \in {"Ok", "ChatWorkspaceNotFound", "StoreError"}
            /\ Status(r) = "ChatWorkspaceNotFound" => Stored(r) = None
            /\ Status(r) = "Ok" =>
                  /\ IsSome(Stored(r))
                  /\ Body(r) = Some(HideSecrets(Unwrap(Stored(r))))
            /\ \A w \in Workspaces : db[w] = Unwrap(pre[r])[w]

\* a read answered Ok and a store that holds records of two workspaces
C7_Witness ==
    \E r \in Reqs :
        /\ Done(r, "get")
        /\ Status(r) = "Ok"
        /\ Body(r) = Some(HideSecrets(Unwrap(Stored(r))))
        /\ \A w \in Workspaces : IsSome(db[w]) /\ db[w] = Unwrap(pre[r])[w]

\* C8: the api_key of a read's answer is the mask when the stored one is
\* present and absent when it is absent; the other fields are the stored
\* ones; the answer is the same whatever the value of the present api_key;
\* the stored api_key is still the one that was stored.
C8_ReadHidesApiKey ==
    \A r \in Reqs :
        (Done(r, "get") /\ Status(r) = "Ok") =>
            LET stored == Unwrap(Stored(r))
                body == Unwrap(Body(r)) IN
            /\ body.api_key =
                  IF IsSome(stored.api_key) THEN Some("XXX...") ELSE None
            /\ body.source = stored.source
            /\ body.base_api = stored.base_api
            /\ body.prompts = stored.prompts
            /\ IsSome(stored.api_key) =>
                  /\ Unwrap(stored.api_key) \in ApiKeys
                  /\ \A k \in ApiKeys :
                        Unwrap(Body(r)) = HideSecrets([stored EXCEPT !.api_key = Some(k)])
            /\ Stored(r) = Before(r)

\* a read of a record whose api_key is "sk-2"
C8_Witness ==
    \E r \in Reqs :
        /\ Done(r, "get")
        /\ Status(r) = "Ok"
        /\ Unwrap(Stored(r)).api_key = Some("sk-2")
        /\ Unwrap(Body(r)).api_key = Some("XXX...")
        /\ Unwrap(Body(r)).base_api = Unwrap(Stored(r)).base_api

----------------------------------------------------------------------------
(* Properties of concurrent requests (Spec) *)

\* C9: the committed store is the one that the committed patches and deletes
\* give when run one after another in the order of their commits: no update
\* of a concurrent patch or delete is lost.
C9_WritesSerialize == db = atomic

\* two patches in flight together on a workspace, one setting apiKey and one
\* baseApi, both answered Ok: the record holds both
C9_Witness ==
    \E r \in Reqs : \E s \in Reqs \ {r} :
        /\ PatchDone(r) /\ PatchDone(s)
        /\ Uid(r) = Uid(s)
        /\ s \in overlap[r]
        /\ Before(r) = None
        /\ New(r) = [EmptyPatch EXCEPT !.api_key = Set("sk-2")]
        /\ New(s) = [EmptyPatch EXCEPT !.base_api = Set("https://api.mistral.ai/v1")]
        /\ Unwrap(Stored(r)).api_key = Some("sk-2")
        /\ Unwrap(Stored(r)).base_api = Some("https://api.mistral.ai/v1")

\* a patch and a delete in flight together on a workspace that had a record,
\* both committed
C9_PatchAndDelete ==
    \E r \in Reqs : \E s \in Reqs \ {r} :
        /\ PatchDone(r)
        /\ Done(s, "delete") /\ Status(s) = "NoContent"
        /\ Uid(r) = Uid(s)
        /\ s \in overlap[r] \/ r \in overlap[s]

\* C10: the answer of a read is the record of its workspace as committed at
\* some moment of the read, whole: not-found when no record was committed
\* then, and otherwise that record with its secret hidden; never what a
\* writer has put and not committed, never a mix of two committed records.
C10_ReadSeesCommitted ==
    \A r \in Reqs :
        Done(r, "get") =>
            /\ Status(r) = "ChatWorkspaceNotFound" => None \in window[r]
            /\ Status(r) = "Ok" =>
                  \E v \in window[r] :
                      /\ IsSome(v)
                      /\ Body(r) = Some(HideSecrets(Unwrap(v)))

\* a read during which a write to its workspace was committed, answered with
\* the record committed before that write
C10_Witness ==
    \E r \in Reqs :
        /\ Done(r, "get")
        /\ Status(r) = "Ok"
        /\ Cardinality(window[r]) = 2
        /\ overlap[r] # {} \/ \E s \in Reqs : r \in overlap[s]
        /\ IsSome(Stored(r)) => Body(r) # Some(HideSecrets(Unwrap(Stored(r))))

\* C11: a patch or a delete that a store step failed (the opening of the
\* write transaction, the lookup, the put, the delete or the commit) is
\* answered StoreError once, with nothing after it: its transaction is
\* gone, it holds no write lock, it committed nothing, and the store holds,
\* for every workspace, what it held when the request arrived.
C11_FailedWriteChangesNothing ==
    \A r \in Reqs :
        /\ pc[r] = "done" /\ Op(r) \in {"patch", "delete"}
        /\ Status(r) = "StoreError"
        => /\ db = Unwrap(pre[r])
           /\ ~didCommit[r]
           /\ txn[r] = None
           /\ r \notin writer
           /\ Body(r) = None

\* a patch that would have changed the record, failed at its put or at its
\* commit
C11_Witness ==
    \E r \in Reqs :
        /\ Done(r, "patch")
        /\ Status(r) = "StoreError"
        /\ IsSome(settings[r])
        /\ IsSome(Before(r))
        /\ settings[r] # Before(r)
        /\ Stored(r) = Before(r)

\* a delete of a workspace that has a record, failed
C11_DeleteFails ==
    \E r \in Reqs :
        /\ Done(r, "delete")
        /\ Status(r) = "StoreError"
        /\ IsSome(Before(r))
        /\ Stored(r) = Before(r)

\* C12: a patch answered Ok carries the whole new record, the api_key as it
\* is stored and not its mask, and this record is, field by field, the one
\* its write transaction put and committed for the workspace.
C12_PatchAnswersStored ==
    \A r \in Reqs :
        PatchDone(r) =>
            /\ didCommit[r]
            /\ IsSome(Body(r))
            /\ Body(r) = Stored(r)
            /\ \A f \in {"source", "base_api", "api_key", "prompts"} :
                  Unwrap(Body(r))[f] = Unwrap(Stored(r))[f]
            /\ Unwrap(Body(r)).api_key # Some(MaskedSecret)
            /\ Tag(New(r).api_key) = "Set" =>
                  Unwrap(Body(r)).api_key = Some(SetValue(New(r).api_key))

\* a patch that sets the api key over a record with another key, answered
\* with the new key in clear
C12_Witness ==
    \E r \in Reqs :
        /\ PatchDone(r)
        /\ IsSome(Before(r))
        /\ Unwrap(Before(r)).api_key = Some("sk-1")
        /\ New(r).api_key = Set("sk-2")
        /\ Unwrap(Body(r)).api_key = Some("sk-2")
        /\ Unwrap(Stored(r)).api_key = Some("sk-2")

\* the records the store can hold: every field resolved
ChatCompletionSettings ==
    [source   : {SourceFrom(source) : source \in WireSources},
     base_api : {None} \cup {Some(url) : url \in BaseApis},
     api_key  : {None} \cup {Some(key) : key \in ApiKeys},
     prompts  : [system                 : Texts \cup {DEFAULT_CHAT_SYSTEM_PROMPT},
                 search_description     :
                     Texts \cup {DEFAULT_CHAT_SEARCH_DESCRIPTION_PROMPT},
                 search_q_param         :
                     Texts \cup {DEFAULT_CHAT_SEARCH_Q_PARAM_PROMPT},
                 search_index_uid_param :
                     Texts \cup {DEFAULT_CHAT_SEARCH_INDEX_UID_PARAM_PROMPT},
                 pre_query              : Texts \cup {DEFAULT_CHAT_PRE_QUERY_PROMPT}]]

\* C13: in every state every record of the store, committed or put by a
\* transaction in progress, is complete: its source is one of the providers,
\* each of its five prompts is a text (given or default), its base_api and
\* its api_key are a text or nothing; no field holds a Set, Reset or NotSet.
C13_StoredRecordsComplete ==
    /\ \A w \in Workspaces :
          db[w] = None \/ (IsSome(db[w]) /\ Unwrap(db[w]) \in ChatCompletionSettings)
    /\ \A r \in Reqs : \A w \in Workspaces :
          IsSome(txn[r]) =>
              \/ Unwrap(txn[r])[w] = None
              \/ /\ IsSome(Unwrap(txn[r])[w])
                 /\ Unwrap(Unwrap(txn[r])[w]) \in ChatCompletionSettings

\* a record whose fields come from several writes: an api_key and a
\* search_description other than those the store started with, and then the
\* patch {"baseApi": null}
C13_Witness ==
    \E r \in Reqs :
        /\ PatchDone(r)
        /\ lastWrite[Uid(r)] = "patched"
        /\ New(r).base_api = Reset
        /\ Unwrap(Stored(r)).base_api = None
        /\ Unwrap(Stored(r)).api_key = Some("sk-2")
        /\ Unwrap(Stored(r)).prompts.search_description
              = DEFAULT_CHAT_SEARCH_DESCRIPTION_PROMPT

\* C14: on a workspace without a record, after the patch {"apiKey": "sk-1"}
\* the record has api_key "sk-1", source OpenAi, no base_api and the default
\* prompts; after the patch {"apiKey": null} that follows it has no api_key;
\* after the patch {"prompts": {"system": "Hi"}} that follows, its system
\* prompt is "Hi", it still has no api_key and the rest is unchanged.
C14_ThreePatches ==
    \A w \in Workspaces :
        /\ scenario[w] = "first" =>
              db[w] = Some([SettingsDefault EXCEPT !.api_key = Some("sk-1")])
        /\ scenario[w] = "second" => db[w] = Some(SettingsDefault)
        /\ scenario[w] = "third" =>
              /\ IsSome(db[w])
              /\ Unwrap(db[w]).prompts.system = "Hi"
              /\ Unwrap(db[w]).api_key = None
              /\ db[w] = Some([SettingsDefault EXCEPT !.prompts.system = "Hi"])

\* the third patch of the scenario has been committed and answered
C14_Witness ==
    \E r \in Reqs :
        /\ PatchDone(r)
        /\ scenario[Uid(r)] = "third"
        /\ New(r) = Scenario[3]

\* the answers of each operation
Outcomes(op) ==
    CASE op = "get" -> {"Ok", "ChatWorkspaceNotFound", "StoreError"}
      [] op = "patch" -> {"Ok", "StoreError"}
      [] op = "delete" -> {"NoContent", "ChatWorkspaceNotFound", "StoreError"}

\* a handler that has returned has one answer, one its operation can give,
\* and holds neither a transaction nor the write lock; the write lock is
\* only ever held by a handler between write_txn and its return
Released ==
    /\ \A r \in Reqs :
          pc[r] = "done" =>
              /\ IsSome(resp[r])
              /\ Status(r) \in Outcomes(Op(r))
              /\ txn[r] = None
              /\ r \notin writer
    /\ \A r \in writer :
          /\ pc[r] \in {"wtxn", "loaded", "merged", "put", "deleted"}
          /\ IsSome(txn[r])

\* C15: under fair scheduling every request received is answered, with one
\* of the outcomes of its operation, and once it is answered its transaction
\* is gone, committed or rolled back, and it does not hold the write lock:
\* also after a delete answered not-found and after every store failure.
C15_EveryRequestReturns ==
    /\ \A r \in Reqs : (pc[r] = "start") ~> (pc[r] = "done")
    /\ []Released

\* a delete answered not-found, and the request that was waiting for the
\* write lock behind it now in its write transaction
C15_Witness ==
    \E r \in Reqs : \E s \in Reqs \ {r} :
        /\ Done(r, "delete")
        /\ Status(r) = "ChatWorkspaceNotFound"
        /\ r \in overlap[s]
        /\ s \in writer

\* C16: a patch sent twice in a row, with no other write between the two,
\* leaves the record the first one left, and gets the same answer twice; and
\* merging a patch once more into the record it left changes nothing.
C16_PatchIsIdempotent ==
    \A r \in Reqs :
        PatchDone(r) =>
            /\ IsSome(first[r]) =>
                  /\ Body(r) = first[r]
                  /\ Stored(r) = first[r]
                  /\ Before(r) = first[r]
            /\ MergeSettings(Unwrap(Stored(r)), New(r)) = Unwrap(Stored(r))

\* the patch {"apiKey": null, "prompts": null} sent twice over a record that
\* had a key and its own prompt
C16_Witness ==
    \E r \in Reqs :
        /\ PatchDone(r)
        /\ IsSome(first[r])
        /\ New(r) = [EmptyPatch EXCEPT !.api_key = Reset, !.prompts = Reset]
        /\ lastWrite[Uid(r)] = "patched"
        /\ Stored(r) = Some([PersistedSettings EXCEPT
                                !.api_key = None, !.prompts = DbPromptsDefault])

\* C17: the first patch committed after a committed delete of its workspace
\* starts from the all-defaults record: every field it leaves out has its
\* default (no api_key, no base_api, source OpenAi, the default prompts), and
\* nothing of the deleted record is back.
C17_DeletedStaysDeleted ==
    \A r \in Reqs :
        (PatchDone(r) /\ lastWrite[Uid(r)] = "recreated") =>
            /\ Before(r) = None
            /\ IsSome(Stored(r))
            /\ LET new == New(r)
                   now == Unwrap(Stored(r)) IN
               /\ new.api_key = NotSet => now.api_key = None
               /\ new.base_api = NotSet => now.base_api = None
               /\ new.source = NotSet => now.source = "OpenAi"
               /\ new.prompts = NotSet => now.prompts = DbPromptsDefault
               /\ Tag(new.prompts) = "Set" =>
                     \A f \in PromptFields :
                         SetValue(new.prompts)[f] = NotSet =>
                             now.prompts[f] = DbPromptsDefault[f]

\* the patch {"prompts": {"system": "Hi"}} just after a delete: the record
\* has no api_key
C17_Witness ==
    \E r \in Reqs :
        /\ PatchDone(r)
        /\ lastWrite[Uid(r)] = "recreated"
        /\ New(r) = Scenario[3]
        /\ Unwrap(Stored(r)).api_key = None
        /\ Unwrap(Stored(r)).prompts.system = "Hi"

\* C18: the record of a workspace changes only in the step in which a
\* request on that very workspace commits its write transaction; no step of
\* a read, a patch or a delete, answered or failed, creates, changes or
\* removes the record of another workspace.
C18_OtherWorkspacesUntouched ==
    [][\A w \in Workspaces :
          db'[w] # db[w] =>
              \E r \in writer :
                  /\ Uid(r) = w
                  /\ pc[r] \in {"put", "deleted"}
                  /\ pc'[r] = "done"]_vars

\* a patch of one workspace and a delete of the other, in flight together
\* and both committed: each workspace holds what its own request wrote
C18_Witness ==
    \E r \in Reqs : \E s \in Reqs \ {r} :
        /\ PatchDone(r)
        /\ Done(s, "delete") /\ Status(s) = "NoContent"
        /\ Uid(r) # Uid(s)
        /\ s \in overlap[r]
        /\ Stored(r) = Body(r)
        /\ Before(r) # Stored(r)
        /\ Stored(s) = None

\* C19: a patch without apiKey on a record that has an api_key is answered
\* with that api_key in clear, the one stored before it and not given in the
\* request, while a read is only ever answered with the mask in its place.
C19_PatchDisclosesStoredKey ==
    \A r \in Reqs :
        /\ ( /\ PatchDone(r)
             /\ New(r).api_key = NotSet
             /\ IsSome(Before(r))
             /\ IsSome(Unwrap(Before(r)).api_key) ) =>
              /\ Unwrap(Body(r)).api_key = Unwrap(Before(r)).api_key
              /\ Unwrap(Unwrap(Body(r)).api_key) \in ApiKeys
              /\ Unwrap(Body(r)).api_key # Some(MaskedSecret)
        /\ (Done(r, "get") /\ Status(r) = "Ok") =>
              Unwrap(Body(r)).api_key \in {None, Some(MaskedSecret)}

\* the key "sk-2" set by a patch, then the patch {"baseApi": null} sent:
\* its answer shows "sk-2"
C19_Witness ==
    \E r \in Reqs :
        /\ PatchDone(r)
        /\ New(r) = [EmptyPatch EXCEPT !.base_api = Reset]
        /\ IsSome(Before(r))
        /\ Unwrap(Before(r)).api_key = Some("sk-2")
        /\ Unwrap(Body(r)).api_key = Some("sk-2")

====
